---- MODULE Spec2Model ----
(***************************************************************************)
(* Model of the grim wargame bot: the Telegram command handlers of         *)
(* grim.ts (src/unnamed/part_001) driving ChatService.processActions in    *)
(* its two variants, the text-marker variant of anthropic.ts               *)
(* (src/unnamed/part_000) and the tool-call variant of src/src/openai.ts.  *)
(*                                                                         *)
(* A text is a sequence of tokens; a template literal is the               *)
(* concatenation of its fixed pieces and the interpolated texts.           *)
(* Updates are handled one at a time (bot.start() long polling), so one    *)
(* handler position pc describes the session; an await inside a handler    *)
(* ends one action and starts the next.                                    *)
(***************************************************************************)
EXTENDS Integers, Sequences, FiniteSets, TLC

VARIABLES
    variant,              \* which ChatService the bot was built with
    roleAssignments,      \* SessionData.roleAssignments: user id -> Player
    scenarioState,        \* SessionData.scenarioState: [isActive, messages]
    actionQueue,          \* SessionData.actionQueue
    scenarioCheckpoints,  \* SessionData.scenarioCheckpoints: hash -> state
    pc,                   \* position of the running command handler
    turn,                 \* locals of the processActions call in progress
    requests,             \* backend requests issued by the running handler
    inflight,             \* forecast requests the backend has not answered
    ops                   \* interactions queued and turns committed so far

vars == <<variant, roleAssignments, scenarioState, actionQueue,
          scenarioCheckpoints, pc, turn, requests, inflight, ops>>

\* ---------------------------------------------------------------- bounds
\* interactions queued plus turns committed in one run of the session
MaxOps == 3

\* length of the batch handed to processActions directly
MaxBatch == 3

\* ------------------------------------------------------------ input sets
Variants == {"anthropic", "openai"}

Users == {1, 2}

UserName(u) == IF u = 1 THEN "Alice" ELSE "Bob"

\* ctx.match of /role: empty, without a dash, well formed
RoleArgs(u) == { <<>>, <<UserName(u)>>, <<UserName(u), "-", "Responder">> }

\* ctx.match of /info, /feed, /action
Contents == { <<>>, <<"recon">> }

\* ctx.match of /scenario
ScenarioTexts == { <<>>, <<"unrest">> }

NoValue == [none |-> TRUE]

\* ---------------------------------------------------------- text helpers
RECURSIVE Join(_, _)
Join(texts, sep) ==
    IF Len(texts) = 0 THEN <<>>
    ELSE IF Len(texts) = 1 THEN texts[1]
    ELSE texts[1] \o sep \o Join(Tail(texts), sep)

IndexOf(text, tok) ==
    IF \E i \in 1..Len(text) : text[i] = tok
    THEN CHOOSE i \in 1..Len(text) :
            text[i] = tok /\ \A j \in 1..(i - 1) : text[j] # tok
    ELSE 0

WhiteSpace == {" ", "\n"}

IsSpace(tok) == tok \in WhiteSpace

RECURSIVE Trim(_)
Trim(text) ==
    IF Len(text) = 0 THEN text
    ELSE IF IsSpace(text[1]) THEN Trim(Tail(text))
    ELSE IF IsSpace(text[Len(text)]) THEN Trim(SubSeq(text, 1, Len(text) - 1))
    ELSE text

\* as partition, but each item is put in front of its part
partitionPrepends(arr, predicate) ==
    LET Reverse(seq) == [i \in 1..Len(seq) |-> seq[Len(seq) + 1 - i]]
    IN  << Reverse(SelectSeq(arr, LAMBDA a : predicate[a])),
           Reverse(SelectSeq(arr, LAMBDA a : ~predicate[a])) >>

\* partition(array, predicate): [pass, fail], each in array order
partition(arr, predicate) ==
    << SelectSeq(arr, LAMBDA a : predicate[a]),
       SelectSeq(arr, LAMBDA a : ~predicate[a]) >>

\* action => action.type === UserInteractionType.FEED, over the batch
IsFeed(actions) ==
    [action \in {actions[i] : i \in 1..Len(actions)} |-> action.type = "FEED"]

\* `${action.type} ${action.player.name}: ${action.content}`
RenderInteraction(action) ==
    <<action.type, " ">> \o action.player.name \o <<": ">> \o action.content

\* actions.map(render).join("\n")
concurrentUserInteractions(actions) ==
    Join([i \in 1..Len(actions) |-> RenderInteraction(actions[i])], <<"\n">>)

\* ------------------------------------------------- checkpoints (grim.ts)
\* JSON.stringify(state): the fields in declaration order
JSONStringify(state) == <<"isActive", state.isActive, "messages", state.messages>>

\* JSON.parse of a string JSON.stringify produced
JSONParse(str) == [isActive |-> str[2], messages |-> str[4]]

\* sha256(...).digest('hex').slice(0, 8), taken as collision free on the
\* states of the model: the digest is represented by its preimage
generateStateHash(state) == <<"sha256", JSONStringify(state)>>

\* as saveState, but the key is the number of the save
saveStateNumbered(checkpoints, state) ==
    LET hash == <<"save", Cardinality(DOMAIN checkpoints)>>
    IN  [h \in DOMAIN checkpoints \cup {hash} |->
            IF h = hash THEN JSONParse(JSONStringify(state)) ELSE checkpoints[h]]

\* as saveState, but the copy is the state as it was before its activation
saveStateInactive(checkpoints, state) ==
    LET hash == generateStateHash(state)
    IN  [h \in DOMAIN checkpoints \cup {hash} |->
            IF h = hash
            THEN [JSONParse(JSONStringify(state)) EXCEPT !.isActive = FALSE]
            ELSE checkpoints[h]]

saveState(checkpoints, state) ==
    LET hash == generateStateHash(state)
    IN  [h \in DOMAIN checkpoints \cup {hash} |->
            IF h = hash THEN JSONParse(JSONStringify(state)) ELSE checkpoints[h]]

\* ------------------------------------------------------------------ Init
NoTurn ==
    [ before |-> NoValue,
      canonicalScenarioMessages |-> <<>>,
      actions |-> <<>>,
      promises |-> <<>>,
      responses |-> <<>>,
      allOutcomesStr |-> NoValue,
      narration |-> NoValue,
      result |-> NoValue,
      reply |-> NoValue ]

\* the bot is built with the ChatService of ./anthropic
Init ==
    /\ variant = "anthropic"
    /\ roleAssignments = <<>>
    /\ scenarioState = [isActive |-> FALSE, messages |-> <<>>]
    /\ actionQueue = <<>>
    /\ scenarioCheckpoints = [h \in {} |-> NoValue]
    /\ pc = "idle"
    /\ turn = NoTurn
    /\ requests = <<>>
    /\ inflight = {}
    /\ ops = 0

\* the session fields a command may write
SessionSnapshot ==
    [ roleAssignments |-> roleAssignments,
      scenarioState |-> scenarioState,
      actionQueue |-> actionQueue,
      scenarioCheckpoints |-> scenarioCheckpoints ]

\* ------------------------------------------------ Map<number, Player>
MapHas(map, key) == \E i \in 1..Len(map) : map[i].id = key

MapGet(map, key) == map[CHOOSE i \in 1..Len(map) : map[i].id = key]

\* Map.set keeps the insertion position of a key that is already present
MapSet(map, key, value) ==
    IF MapHas(map, key)
    THEN [i \in 1..Len(map) |-> IF map[i].id = key THEN value ELSE map[i]]
    ELSE Append(map, value)

\* ------------------------------------------------------ command filters
\* the next update is taken up when the handler before it has ended; the
\* answers a failed turn left outstanding are taken to arrive before that
\* as Idle, but an update is taken up while a handler is still running
IdleUnguarded == pc \in {"idle", "forecast", "narrate", "returned", "reply"}

\* as Idle, but an update is taken up while processActions awaits the backend
IdleWhileAwaiting == pc \in {"idle", "forecast", "narrate"}

Idle == pc = "idle" /\ inflight = {}

requireRole(u) == MapHas(roleAssignments, u)

\* as requireScenario, but every update passes the filter
requireScenarioPassesAll == TRUE

requireScenario == scenarioState.isActive

\* as requireNoScenario, but every update passes the filter
requireNoScenarioPassesAll == TRUE

requireNoScenario == ~scenarioState.isActive

\* ----------------------------------------------------------------- /role
RoleCommand(u, arg) ==
    /\ Idle
    /\ LET indexOfDash == IndexOf(arg, "-")
       IN  IF arg = <<>> \/ indexOfDash = 0
           THEN UNCHANGED roleAssignments
           ELSE LET player == [id |-> u,
                               name |-> Trim(SubSeq(arg, 1, indexOfDash - 1)),
                               role |-> Trim(SubSeq(arg, indexOfDash + 1, Len(arg)))]
                IN  roleAssignments' = MapSet(roleAssignments, u, player)
    /\ UNCHANGED <<variant, scenarioState, actionQueue, scenarioCheckpoints,
                   pc, turn, requests, inflight, ops>>

\* ------------------------------------------------------ backend replies
\* what logAndCreateChatCompletion resolves to, or its rejection
BackendError == [ok |-> FALSE]

TextReply(text) == [ok |-> TRUE, content |-> text, tool_calls |-> <<>>]

ToolReply(args) ==
    [ok |-> TRUE, content |-> <<>>, tool_calls |-> <<[name |-> "sample_from_weighted_outcomes", arguments |-> args]>>]

InitReplies == { TextReply(<<"# Time Offset", "T+0", "# Scenario", "stage">>), TextReply(<<>>), BackendError }

NarrationReplies == { TextReply(<<"# Time Offset", "T+2h", "# Narrative Update", "calm">>), TextReply(<<>>), BackendError }

\* JSON text of the tool call's arguments: well formed or not
WeightedOutcomes ==
    << [outcome |-> <<"won">>, weight |-> 1], [outcome |-> <<"lost">>, weight |-> 3] >>

GoodArguments == [parses |-> TRUE, value |-> [outcomes |-> WeightedOutcomes]]

BadArguments == [parses |-> FALSE]

ForecastReplies(v) ==
    IF v = "anthropic"
    THEN { TextReply(<<"OUTCOME:", " ", "won", "\n", "notes">>), TextReply(<<"unsure">>), BackendError }
    ELSE { ToolReply(GoodArguments), ToolReply(BadArguments), TextReply(<<"unsure">>), BackendError }

\* values of Math.random(), as fractions
Rands == { [num |-> 0, den |-> 1], [num |-> 1, den |-> 2] }

\* -------------------------------------------- ChatService (both variants)
playerDescriptionsXml(players) ==
    <<"<playerDescriptions>">>
    \o Join([i \in 1..Len(players) |->
                <<"<player>", "<name>">> \o players[i].name \o <<"</name>", "<role>">>
                \o players[i].role \o <<"</role>", "</player>">>], <<>>)
    \o <<"</playerDescriptions>">>

getInitialPrompt(players) ==
    <<"You are an expert wargame facilitator">> \o playerDescriptionsXml(players)
    \o <<"always have a time offset of T+0">>

\* the request of initializeScenario
InitRequest(v, scenario, players) ==
    LET scenarioMessage == [role |-> "user", content |-> scenario]
    IN  IF v = "anthropic"
        THEN [kind |-> "init", target |-> 0, system |-> getInitialPrompt(players),
              messages |-> <<scenarioMessage>>, tools |-> FALSE]
        ELSE [kind |-> "init", target |-> 0, system |-> <<>>,
              messages |-> <<[role |-> "developer", content |-> getInitialPrompt(players)],
                             scenarioMessage>>, tools |-> FALSE]

\* as initializeScenario, but empty content yields no assistant message
initializeScenarioSkipsEmpty(scenario, completion) ==
    IF completion.content # <<>>
    THEN << [role |-> "user", content |-> scenario],
            [role |-> "assistant", content |-> completion.content] >>
    ELSE << [role |-> "user", content |-> scenario] >>

\* as initializeScenario, but the assistant message is stamped with the offset
initializeScenarioStampsOffset(scenario, completion) ==
    LET response == IF completion.content # <<>> THEN completion.content
                    ELSE <<"Failed to generate scenario">>
    IN  << [role |-> "user", content |-> scenario],
           [role |-> "assistant", content |-> <<"# Time Offset", "T+0">> \o response] >>

\* initializeScenario's return value for a completion
initializeScenario(scenario, completion) ==
    LET response == IF completion.content # <<>> THEN completion.content
                    ELSE <<"Failed to generate scenario">>
    IN  << [role |-> "user", content |-> scenario],
           [role |-> "assistant", content |-> response] >>

\* ------------------------------------------------------------- /scenario
ScenarioCommand(u, scenarioText) ==
    /\ Idle
    /\ requireRole(u)
    /\ requireNoScenario
    /\ IF scenarioText = <<>>
       THEN UNCHANGED <<pc, turn, requests>>
       ELSE /\ pc' = "init"
            /\ turn' = [NoTurn EXCEPT !.before = SessionSnapshot]
            /\ requests' = <<InitRequest(variant, scenarioText, roleAssignments)>>
    /\ UNCHANGED <<variant, roleAssignments, scenarioState, actionQueue,
                   scenarioCheckpoints, inflight, ops>>

\* as ScenarioSettle, but the initial state is not checkpointed
ScenarioSettleWithoutSave(completion) ==
    /\ pc = "init"
    /\ IF completion.ok
       THEN LET messages == initializeScenario(requests[1].messages[Len(requests[1].messages)].content,
                                               completion)
                state == [isActive |-> TRUE, messages |-> messages]
            IN  /\ scenarioState' = state
                /\ scenarioCheckpoints' = scenarioCheckpoints
                /\ pc' = "idle"
                /\ turn' = NoTurn
                /\ requests' = <<>>
       ELSE /\ pc' = "initFailed"
            /\ UNCHANGED <<scenarioState, scenarioCheckpoints, turn, requests>>
    /\ UNCHANGED <<variant, roleAssignments, actionQueue, inflight, ops>>

ScenarioSettle(completion) ==
    /\ pc = "init"
    /\ IF completion.ok
       THEN LET messages == initializeScenario(requests[1].messages[Len(requests[1].messages)].content,
                                               completion)
                state == [isActive |-> TRUE, messages |-> messages]
            IN  /\ scenarioState' = state
                /\ scenarioCheckpoints' = saveState(scenarioCheckpoints, state)
                /\ pc' = "idle"
                /\ turn' = NoTurn
                /\ requests' = <<>>
       ELSE /\ pc' = "initFailed"
            /\ UNCHANGED <<scenarioState, scenarioCheckpoints, turn, requests>>
    /\ UNCHANGED <<variant, roleAssignments, actionQueue, inflight, ops>>

\* ------------------------------------------------- /info, /feed, /action
\* as Enqueue, but the interaction is put at the head of the queue
EnqueueAtHead(type, u, message) ==
    /\ Idle
    /\ requireRole(u)
    /\ requireScenario
    /\ IF message = <<>>
       THEN UNCHANGED <<actionQueue, ops>>
       ELSE /\ ops < MaxOps
            /\ actionQueue' =
                    <<[type |-> type, player |-> MapGet(roleAssignments, u), content |-> message]>>
                    \o actionQueue
            /\ ops' = ops + 1
    /\ UNCHANGED <<variant, roleAssignments, scenarioState, scenarioCheckpoints,
                   pc, turn, requests, inflight>>

\* as Enqueue, but the command is not behind the requireScenario filter
EnqueueWithoutScenario(type, u, message) ==
    /\ Idle
    /\ requireRole(u)
    /\ IF message = <<>>
       THEN UNCHANGED <<actionQueue, ops>>
       ELSE /\ ops < MaxOps
            /\ actionQueue' = Append(actionQueue,
                    [type |-> type, player |-> MapGet(roleAssignments, u), content |-> message])
            /\ ops' = ops + 1
    /\ UNCHANGED <<variant, roleAssignments, scenarioState, scenarioCheckpoints,
                   pc, turn, requests, inflight>>

Enqueue(type, u, message) ==
    /\ Idle
    /\ requireRole(u)
    /\ requireScenario
    /\ IF message = <<>>
       THEN UNCHANGED <<actionQueue, ops>>
       ELSE /\ ops < MaxOps
            /\ actionQueue' = Append(actionQueue,
                    [type |-> type, player |-> MapGet(roleAssignments, u), content |-> message])
            /\ ops' = ops + 1
    /\ UNCHANGED <<variant, roleAssignments, scenarioState, scenarioCheckpoints,
                   pc, turn, requests, inflight>>

InfoCommand(u, message) == Enqueue("INFO", u, message)

FeedCommand(u, message) == Enqueue("FEED", u, message)

ActionCommand(u, message) == Enqueue("ACTION", u, message)

\* --------------------------------------------------------------- /remove
\* ctx.match of /remove: empty, not a number, a decimal numeral, a numeral
\* with text after it
Numerals == <<"1", "2", "3", "4", "5", "6", "7", "8", "9">>

RemoveParams ==
    { <<>>, <<"x">>, <<"0">>, <<"1", "x">> } \cup { <<Numerals[n]>> : n \in 1..(MaxOps + 1) }

\* parseInt(param, 10): the value of the numeral the text starts with, whatever
\* follows it; NaN when the text starts with no numeral
parseInt(param) ==
    IF param[1] = "0" THEN [isNaN |-> FALSE, value |-> 0]
    ELSE IF \E n \in 1..Len(Numerals) : Numerals[n] = param[1]
    THEN [isNaN |-> FALSE, value |-> CHOOSE n \in 1..Len(Numerals) : Numerals[n] = param[1]]
    ELSE [isNaN |-> TRUE, value |-> 0]

RemoveCommand(u, param) ==
    /\ Idle
    /\ requireRole(u)
    /\ requireScenario
    /\ IF param = <<>>
       THEN UNCHANGED actionQueue
       ELSE LET parsed == parseInt(param)
                index == parsed.value
            IN  IF parsed.isNaN \/ index < 1 \/ index > Len(actionQueue)
                THEN UNCHANGED actionQueue
                ELSE actionQueue' =
                        [i \in 1..(Len(actionQueue) - 1) |->
                            IF i < index THEN actionQueue[i] ELSE actionQueue[i + 1]]
    /\ UNCHANGED <<variant, roleAssignments, scenarioState, scenarioCheckpoints,
                   pc, turn, requests, inflight, ops>>

\* ------------------------------------------------------------- /rollback
UnknownHash == <<"deadbeef">>

\* as RollbackCommand, but a key that is not in the store empties the transcript
RollbackCommandResetsOnMiss(u, hash) ==
    /\ Idle
    /\ requireRole(u)
    /\ requireScenario
    /\ IF hash = <<>>
       THEN UNCHANGED scenarioState
       ELSE IF hash \notin DOMAIN scenarioCheckpoints
       THEN scenarioState' = [scenarioState EXCEPT !.messages = <<>>]
       ELSE scenarioState' = JSONParse(JSONStringify(scenarioCheckpoints[hash]))
    /\ UNCHANGED <<variant, roleAssignments, actionQueue, scenarioCheckpoints,
                   pc, turn, requests, inflight, ops>>

\* as RollbackCommand, but the restored transcript lacks its last message
RollbackCommandDropsLast(u, hash) ==
    /\ Idle
    /\ requireRole(u)
    /\ requireScenario
    /\ IF hash = <<>> \/ hash \notin DOMAIN scenarioCheckpoints
       THEN UNCHANGED scenarioState
       ELSE scenarioState' =
               [JSONParse(JSONStringify(scenarioCheckpoints[hash])) EXCEPT
                   !.messages = SubSeq(@, 1, Len(@) - 1)]
    /\ UNCHANGED <<variant, roleAssignments, actionQueue, scenarioCheckpoints,
                   pc, turn, requests, inflight, ops>>

\* as RollbackCommand, but the update is taken up while a turn awaits the backend
RollbackCommandDuringTurn(u, hash) ==
    /\ pc \in {"idle", "forecast", "narrate"}
    /\ requireRole(u)
    /\ requireScenario
    /\ IF hash = <<>> \/ hash \notin DOMAIN scenarioCheckpoints
       THEN UNCHANGED scenarioState
       ELSE scenarioState' = JSONParse(JSONStringify(scenarioCheckpoints[hash]))
    /\ UNCHANGED <<variant, roleAssignments, actionQueue, scenarioCheckpoints,
                   pc, turn, requests, inflight, ops>>

\* as RollbackCommand, but the checkpoints taken after the restored one are dropped
RollbackCommandForgetsLater(u, hash) ==
    /\ Idle
    /\ requireRole(u)
    /\ requireScenario
    /\ IF hash = <<>> \/ hash \notin DOMAIN scenarioCheckpoints
       THEN UNCHANGED <<scenarioState, scenarioCheckpoints>>
       ELSE /\ scenarioState' = JSONParse(JSONStringify(scenarioCheckpoints[hash]))
            /\ scenarioCheckpoints' =
                  [h \in { g \in DOMAIN scenarioCheckpoints :
                             Len(scenarioCheckpoints[g].messages)
                                 <= Len(scenarioCheckpoints[hash].messages) }
                      |-> scenarioCheckpoints[h]]
    /\ UNCHANGED <<variant, roleAssignments, actionQueue, pc, turn, requests, inflight, ops>>

RollbackCommand(u, hash) ==
    /\ Idle
    /\ requireRole(u)
    /\ requireScenario
    /\ IF hash = <<>> \/ hash \notin DOMAIN scenarioCheckpoints
       THEN UNCHANGED scenarioState
       ELSE scenarioState' = JSONParse(JSONStringify(scenarioCheckpoints[hash]))
    /\ UNCHANGED <<variant, roleAssignments, actionQueue, scenarioCheckpoints,
                   pc, turn, requests, inflight, ops>>

\* ------------------------------------------ processActions: forecasting
RECURSIVE SumWeights(_, _)
SumWeights(outcomes, n) ==
    IF n = 0 THEN 0 ELSE outcomes[n].weight + SumWeights(outcomes, n - 1)

\* rand <= cumSum after i candidates, with cumSum = SumWeights(i) / totalWeight;
\* with totalWeight 0 cumSum is NaN and the comparison is false
RandWithin(outcomes, i, rand) ==
    /\ SumWeights(outcomes, Len(outcomes)) # 0
    /\ rand.num * SumWeights(outcomes, Len(outcomes)) <= SumWeights(outcomes, i) * rand.den

\* as sampleFromWeightedOutcomes, but null when no cumulative sum reaches rand
sampleWithoutFallback(outcomes, rand) ==
    IF \E i \in 1..Len(outcomes) : RandWithin(outcomes, i, rand)
    THEN outcomes[CHOOSE i \in 1..Len(outcomes) :
                    /\ RandWithin(outcomes, i, rand)
                    /\ \A j \in 1..(i - 1) : ~RandWithin(outcomes, j, rand)].outcome
    ELSE <<"null">>

\* as sampleFromWeightedOutcomes, but the test is rand < cumSum
sampleStrictlyBelow(outcomes, rand) ==
    LET total == SumWeights(outcomes, Len(outcomes))
        Below(i) == total # 0 /\ rand.num * total < SumWeights(outcomes, i) * rand.den
    IN  IF \E i \in 1..Len(outcomes) : Below(i)
        THEN outcomes[CHOOSE i \in 1..Len(outcomes) :
                        Below(i) /\ \A j \in 1..(i - 1) : ~Below(j)].outcome
        ELSE outcomes[Len(outcomes)].outcome

sampleFromWeightedOutcomes(outcomes, rand) ==
    IF \E i \in 1..Len(outcomes) : RandWithin(outcomes, i, rand)
    THEN outcomes[CHOOSE i \in 1..Len(outcomes) :
                    /\ RandWithin(outcomes, i, rand)
                    /\ \A j \in 1..(i - 1) : ~RandWithin(outcomes, j, rand)].outcome
    ELSE outcomes[Len(outcomes)].outcome

\* first index >= from whose token is one of stops, or Len(text) + 1
FirstFrom(text, from, stops) ==
    IF \E k \in from..Len(text) : text[k] \in stops
    THEN CHOOSE k \in from..Len(text) :
            text[k] \in stops /\ \A j \in from..(k - 1) : text[j] \notin stops
    ELSE Len(text) + 1

\* where the capture group (.+?) starts for the marker at index i, 0 if the
\* pattern fails there: \s* takes the longest run of white space that still
\* leaves a token other than a line break for the group
CaptureStart(text, i) ==
    LET next == FirstFrom(text, i + 1, {text[k] : k \in 1..Len(text)} \ WhiteSpace)
    IN  IF next <= Len(text) THEN next
        ELSE IF \E p \in (i + 1)..Len(text) : text[p] # "\n"
        THEN CHOOSE p \in (i + 1)..Len(text) :
                text[p] # "\n" /\ \A q \in (p + 1)..Len(text) : text[q] = "\n"
        ELSE 0

\* response.match(/OUTCOME:\s*(.+?)(?:\n|$)/)
MatchOutcome(response) ==
    LET hits == { i \in 1..Len(response) :
                    response[i] = "OUTCOME:" /\ CaptureStart(response, i) # 0 }
    IN  IF hits = {} THEN [matched |-> FALSE, group |-> <<>>]
        ELSE LET i == CHOOSE h \in hits : \A g \in hits : h <= g
                 start == CaptureStart(response, i)
                 stop == FirstFrom(response, start + 1, {"\n"})
             IN  [matched |-> TRUE, group |-> SubSeq(response, start, stop - 1)]

forecasterSystemPrompt == <<"You are a superforecaster">>

\* as contextAndTargetMessage, but the context leaves the FEEDs out
contextAndTargetMessageOmitsFeeds(v, actions, action) ==
    [ role |-> "user",
      content |->
        <<"Here are all the concurrent user interactions for context:", "\n">>
        \o concurrentUserInteractions(SelectSeq(actions, LAMBDA a : a.type # "FEED"))
        \o <<"\n", "\n", "But please forecast the outcome for only this specific action:", "\n">>
        \o RenderInteraction(action)
        \o (IF v = "anthropic"
            THEN <<"\n", "\n", "Please provide your response in this format:", "\n",
                   "OUTCOME:", " ", "<your chosen outcome>">>
            ELSE <<>>) ]

contextAndTargetMessage(v, actions, action) ==
    [ role |-> "user",
      content |->
        <<"Here are all the concurrent user interactions for context:", "\n">>
        \o concurrentUserInteractions(actions)
        \o <<"\n", "\n", "But please forecast the outcome for only this specific action:", "\n">>
        \o RenderInteraction(action)
        \o (IF v = "anthropic"
            THEN <<"\n", "\n", "Please provide your response in this format:", "\n",
                   "OUTCOME:", " ", "<your chosen outcome>">>
            ELSE <<>>) ]

\* the request the map callback of nonFeeds[index] sends
ForecastRequest(v, canonicalScenarioMessages, actions, action, index) ==
    IF v = "anthropic"
    THEN [kind |-> "forecast", target |-> index, system |-> forecasterSystemPrompt,
          messages |-> canonicalScenarioMessages
                       \o <<contextAndTargetMessage(v, actions, action)>>,
          tools |-> FALSE]
    ELSE [kind |-> "forecast", target |-> index, system |-> <<>>,
          messages |-> <<[role |-> "developer", content |-> forecasterSystemPrompt]>>
                       \o canonicalScenarioMessages
                       \o <<contextAndTargetMessage(v, actions, action)>>,
          tools |-> TRUE]

Pending == [state |-> "pending", value |-> NoValue]

Rejected == [state |-> "rejected", value |-> NoValue]

Fulfilled(value) == [state |-> "fulfilled", value |-> value]

\* `${action.type} ${action.player.name}: ${action.content}\nOutcome: ${outcome}`
OutcomeBlock(action, outcome) ==
    RenderInteraction(action) \o <<"\n", "Outcome: ">> \o outcome

\* as ForecastCallback, but a reply without a tool call throws
ForecastCallbackRejectsWithoutToolCall(v, action, completion, rand) ==
    IF ~completion.ok THEN Rejected
    ELSE IF v = "anthropic"
    THEN LET response == completion.content
             outcomeMatch == MatchOutcome(response)
             outcome == IF outcomeMatch.matched THEN Trim(outcomeMatch.group) ELSE response
         IN  Fulfilled(OutcomeBlock(action, outcome))
    ELSE IF completion.tool_calls = <<>> THEN Rejected
    ELSE LET toolCall == completion.tool_calls[1]
         IN  IF ~toolCall.arguments.parses THEN Rejected
             ELSE Fulfilled(OutcomeBlock(action,
                    sampleFromWeightedOutcomes(toolCall.arguments.value.outcomes, rand)))

\* as ForecastCallback, but the text-marker variant labels the outcome its own way
ForecastCallbackOwnLabel(v, action, completion, rand) ==
    IF ~completion.ok THEN Rejected
    ELSE IF v = "anthropic"
    THEN LET response == completion.content
             outcomeMatch == MatchOutcome(response)
             outcome == IF outcomeMatch.matched THEN Trim(outcomeMatch.group) ELSE response
         IN  Fulfilled(RenderInteraction(action) \o <<"\n", "OUTCOME: ">> \o outcome)
    ELSE IF completion.tool_calls = <<>> THEN Fulfilled(NoValue)
    ELSE LET toolCall == completion.tool_calls[1]
         IN  IF ~toolCall.arguments.parses THEN Rejected
             ELSE Fulfilled(OutcomeBlock(action,
                    sampleFromWeightedOutcomes(toolCall.arguments.value.outcomes, rand)))

\* how the map callback of one interaction settles on the backend's answer
ForecastCallback(v, action, completion, rand) ==
    IF ~completion.ok THEN Rejected
    ELSE IF v = "anthropic"
    THEN LET response == completion.content
             outcomeMatch == MatchOutcome(response)
             outcome == IF outcomeMatch.matched THEN Trim(outcomeMatch.group) ELSE response
         IN  Fulfilled(OutcomeBlock(action, outcome))
    ELSE IF completion.tool_calls = <<>> THEN Fulfilled(NoValue)
    ELSE LET toolCall == completion.tool_calls[1]
         IN  IF ~toolCall.arguments.parses THEN Rejected
             ELSE Fulfilled(OutcomeBlock(action,
                    sampleFromWeightedOutcomes(toolCall.arguments.value.outcomes, rand)))

\* as NonFeeds, but the FEED interactions are forecast too
NonFeedsKeepsFeeds(actions) == actions

Feeds(actions) == partition(actions, IsFeed(actions))[1]

NonFeeds(actions) == partition(actions, IsFeed(actions))[2]

\* processActions up to the await of Promise.all: every callback of the map
\* has run to its own await, so every forecast request has been sent
StartProcessActions(canonicalScenarioMessages, actions) ==
    LET nonFeeds == NonFeeds(actions)
    IN  /\ pc' = "forecast"
        /\ turn' = [NoTurn EXCEPT
                      !.before = SessionSnapshot,
                      !.canonicalScenarioMessages = canonicalScenarioMessages,
                      !.actions = actions,
                      !.promises = [i \in 1..Len(nonFeeds) |-> Pending],
                      !.responses = [i \in 1..Len(nonFeeds) |-> NoValue]]
        /\ requests' = [i \in 1..Len(nonFeeds) |->
                          ForecastRequest(variant, canonicalScenarioMessages,
                                          actions, nonFeeds[i], i)]
        /\ inflight' = 1..Len(nonFeeds)

\* as ProcessCommand, but the queue is cleared before processActions is awaited
ProcessCommandClearsQueueFirst(u) ==
    /\ Idle
    /\ requireRole(u)
    /\ requireScenario
    /\ IF Len(actionQueue) = 0
       THEN UNCHANGED <<pc, turn, requests, inflight, actionQueue>>
       ELSE /\ ops < MaxOps
            /\ StartProcessActions(scenarioState.messages, actionQueue)
            /\ actionQueue' = <<>>
    /\ UNCHANGED <<variant, roleAssignments, scenarioState,
                   scenarioCheckpoints, ops>>

\* /process up to its await of processActions
\* as ProcessCommand, but an empty queue is processed like any other
ProcessCommandOnEmptyQueue(u) ==
    /\ Idle
    /\ requireRole(u)
    /\ requireScenario
    /\ ops < MaxOps
    /\ StartProcessActions(scenarioState.messages, actionQueue)
    /\ UNCHANGED <<variant, roleAssignments, scenarioState, actionQueue,
                   scenarioCheckpoints, ops>>

ProcessCommand(u) ==
    /\ Idle
    /\ requireRole(u)
    /\ requireScenario
    /\ IF Len(actionQueue) = 0
       THEN UNCHANGED <<pc, turn, requests, inflight>>
       ELSE /\ ops < MaxOps
            /\ StartProcessActions(scenarioState.messages, actionQueue)
    /\ UNCHANGED <<variant, roleAssignments, scenarioState, actionQueue,
                   scenarioCheckpoints, ops>>

\* as SettlePromise, but the results are kept in the order of arrival
SettlePromiseInArrivalOrder(promises, i, settled) ==
    LET slot == CHOOSE k \in 1..Len(promises) :
                    /\ promises[k].state = "pending"
                    /\ \A j \in 1..(k - 1) : promises[j].state # "pending"
    IN  [promises EXCEPT ![slot] = settled]

\* Promise.all keeps each result at the index of its promise
SettlePromise(promises, i, settled) == [promises EXCEPT ![i] = settled]

\* the backend answers forecast request i while Promise.all is awaited; a
\* rejection rejects Promise.all at once and processActions rethrows
ForecastSettle(i, completion, rand) ==
    /\ pc = "forecast"
    /\ i \in inflight
    /\ LET settled == ForecastCallback(variant, NonFeeds(turn.actions)[i], completion, rand)
       IN  /\ turn' = [turn EXCEPT !.promises = SettlePromise(@, i, settled),
                                   !.responses[i] = completion]
           /\ pc' = IF settled.state = "rejected" THEN "processFailed" ELSE "forecast"
    /\ inflight' = inflight \ {i}
    /\ UNCHANGED <<variant, roleAssignments, scenarioState, actionQueue,
                   scenarioCheckpoints, requests, ops>>

\* an answer that arrives after Promise.all has rejected: nobody reads it
ForecastSettleLate(i) ==
    /\ pc # "forecast"
    /\ i \in inflight
    /\ inflight' = inflight \ {i}
    /\ UNCHANGED <<variant, roleAssignments, scenarioState, actionQueue,
                   scenarioCheckpoints, pc, turn, requests, ops>>

\* ------------------------------------------- processActions: narration
\* (await Promise.all(actionPromises)).filter(not null), in promise order
FilterOutcomes(promises) ==
    LET kept == SelectSeq(promises, LAMBDA p : p.value # NoValue)
    IN  [i \in 1..Len(kept) |-> kept[i].value]

feedMessages(feeds) ==
    [i \in 1..Len(feeds) |-> <<feeds[i].type, ": ">> \o feeds[i].content]

\* [...feedMessages, ...outcomes].join("\n\n")
AllOutcomesStr(feeds, outcomes) ==
    Join(feedMessages(feeds) \o outcomes, <<"\n", "\n">>)

gameMasterSystemPrompt == <<"You are an expert wargame game master">>

NarrationRequest(v, canonicalScenarioMessages, allOutcomesStr) ==
    LET gameMasterRequestMessage ==
            [role |-> "user",
             content |-> <<"Here are the player interactions and their outcomes:", "\n">>
                         \o allOutcomesStr]
    IN  IF v = "anthropic"
        THEN [kind |-> "narration", target |-> 0, system |-> gameMasterSystemPrompt,
              messages |-> canonicalScenarioMessages \o <<gameMasterRequestMessage>>,
              tools |-> FALSE]
        ELSE [kind |-> "narration", target |-> 0, system |-> <<>>,
              messages |-> <<[role |-> "developer", content |-> gameMasterSystemPrompt]>>
                           \o canonicalScenarioMessages \o <<gameMasterRequestMessage>>,
              tools |-> FALSE]

\* as PromiseAllResolved, but one fulfilled promise is enough
PromiseAnyResolved(promises) ==
    \/ Len(promises) = 0
    \/ \E i \in 1..Len(promises) : promises[i].state = "fulfilled"

\* Promise.all has resolved: the narration request is built and sent
PromiseAllResolved(promises) ==
    \A i \in 1..Len(promises) : promises[i].state = "fulfilled"

NarrationIssue ==
    /\ pc = "forecast"
    /\ PromiseAllResolved(turn.promises)
    /\ LET all == AllOutcomesStr(Feeds(turn.actions), FilterOutcomes(turn.promises))
       IN  /\ turn' = [turn EXCEPT !.allOutcomesStr = all]
           /\ requests' = Append(requests,
                            NarrationRequest(variant, turn.canonicalScenarioMessages, all))
    /\ pc' = "narrate"
    /\ UNCHANGED <<variant, roleAssignments, scenarioState, actionQueue,
                   scenarioCheckpoints, inflight, ops>>

\* as ProcessActionsResult, but empty content is passed on as it is
ProcessActionsResultNoFallback(canonicalScenarioMessages, allOutcomesStr, narratorCompletion) ==
    canonicalScenarioMessages
    \o << [role |-> "user", content |-> allOutcomesStr],
          [role |-> "assistant", content |-> narratorCompletion.content] >>

\* as ProcessActionsResult, but only the new messages are returned
ProcessActionsResultDropsHistory(canonicalScenarioMessages, allOutcomesStr, narratorCompletion) ==
    LET narratorResponse ==
            IF narratorCompletion.content # <<>> THEN narratorCompletion.content
            ELSE <<"Failed to generate narrative">>
    IN  << [role |-> "user", content |-> allOutcomesStr],
           [role |-> "assistant", content |-> narratorResponse] >>

\* processActions' return value for the narrator's completion
ProcessActionsResult(canonicalScenarioMessages, allOutcomesStr, narratorCompletion) ==
    LET narratorResponse ==
            IF narratorCompletion.content # <<>> THEN narratorCompletion.content
            ELSE <<"Failed to generate narrative">>
    IN  canonicalScenarioMessages
        \o << [role |-> "user", content |-> allOutcomesStr],
              [role |-> "assistant", content |-> narratorResponse] >>

\* the narrator answers: processActions returns or rethrows
NarrationSettle(narratorCompletion) ==
    /\ pc = "narrate"
    /\ IF narratorCompletion.ok
       THEN /\ turn' = [turn EXCEPT
                          !.narration = narratorCompletion,
                          !.result = ProcessActionsResult(turn.canonicalScenarioMessages,
                                                          turn.allOutcomesStr,
                                                          narratorCompletion)]
            /\ pc' = "returned"
       ELSE /\ turn' = [turn EXCEPT !.narration = narratorCompletion]
            /\ pc' = "processFailed"
    /\ UNCHANGED <<variant, roleAssignments, scenarioState, actionQueue,
                   scenarioCheckpoints, requests, inflight, ops>>

\* ----------------------------------------- /process after processActions
formattedMessages(queue) ==
    Join([i \in 1..Len(queue) |->
            IF queue[i].type = "ACTION"
            THEN <<"ACTION", " ">> \o queue[i].player.name \o <<": ">> \o queue[i].content
            ELSE <<queue[i].type, ": ">> \o queue[i].content], <<"\n">>)

\* the messages the handler pushes onto the session's transcript
\* as HandlerAppended, but only the narration is pushed
HandlerAppendedNarrationOnly(queue, processActionsResult) ==
    << processActionsResult[Len(processActionsResult)] >>

HandlerAppended(queue, processActionsResult) ==
    << [role |-> "user", content |-> formattedMessages(queue)],
       processActionsResult[Len(processActionsResult)] >>

\* as ProcessCommit, but the store holds the live state itself, not a copy:
\* the two pushes land in the entry that is the live state as well
ProcessCommitThroughAlias ==
    /\ pc = "returned"
    /\ LET state == [scenarioState EXCEPT
                        !.messages = @ \o HandlerAppended(actionQueue, turn.result)]
           aliased == [h \in DOMAIN scenarioCheckpoints |->
                         IF scenarioCheckpoints[h] = scenarioState THEN state
                         ELSE scenarioCheckpoints[h]]
       IN  /\ scenarioState' = state
           /\ scenarioCheckpoints' = saveState(aliased, state)
    /\ pc' = "reply"
    /\ ops' = ops + 1
    /\ UNCHANGED <<variant, roleAssignments, actionQueue, turn, requests,
                   inflight>>

\* as ProcessCommit, but the transcript is set to the two new messages
ProcessCommitReplacesTranscript ==
    /\ pc = "returned"
    /\ LET state == [scenarioState EXCEPT
                        !.messages = HandlerAppended(actionQueue, turn.result)]
       IN  /\ scenarioState' = state
           /\ scenarioCheckpoints' = saveState(scenarioCheckpoints, state)
    /\ pc' = "reply"
    /\ ops' = ops + 1
    /\ UNCHANGED <<variant, roleAssignments, actionQueue, turn, requests,
                   inflight>>

\* as ProcessCommit, but the checkpoint is taken before the two pushes
ProcessCommitSavesFirst ==
    /\ pc = "returned"
    /\ scenarioCheckpoints' = saveState(scenarioCheckpoints, scenarioState)
    /\ scenarioState' = [scenarioState EXCEPT
                            !.messages = @ \o HandlerAppended(actionQueue, turn.result)]
    /\ pc' = "reply"
    /\ ops' = ops + 1
    /\ UNCHANGED <<variant, roleAssignments, actionQueue, turn, requests,
                   inflight>>

\* the two pushes and saveState, up to the await of the first reply
ProcessCommit ==
    /\ pc = "returned"
    /\ LET state == [scenarioState EXCEPT
                        !.messages = @ \o HandlerAppended(actionQueue, turn.result)]
       IN  /\ scenarioState' = state
           /\ scenarioCheckpoints' = saveState(scenarioCheckpoints, state)
    /\ pc' = "reply"
    /\ ops' = ops + 1
    /\ UNCHANGED <<variant, roleAssignments, actionQueue, turn, requests,
                   inflight>>

\* the replies went out and the queue is cleared, or a reply threw and the
\* catch block takes over with the queue as it is
ProcessReplied(delivered) ==
    /\ pc = "reply"
    /\ IF delivered
       THEN /\ actionQueue' = <<>>
            /\ pc' = "idle"
            /\ turn' = NoTurn
            /\ requests' = <<>>
       ELSE /\ pc' = "processFailed"
            /\ UNCHANGED <<actionQueue, turn, requests>>
    /\ UNCHANGED <<variant, roleAssignments, scenarioState, scenarioCheckpoints,
                   inflight, ops>>

\* what an error caught by a handler can hold
ErrorDetails == { <<"429 rate limit">>, <<"401 invalid x-api-key">> }

\* as FailureReply, but the text of the error is added to the reply
FailureReplyWithDetail(failed, error) ==
    IF failed = "initFailed"
    THEN <<"Failed to initialize scenario. Please try again later.">> \o error
    ELSE <<"Failed to process actions. Please try again later.">> \o error

\* the text the catch block of /scenario or of /process replies with
FailureReply(failed, error) ==
    IF failed = "initFailed"
    THEN <<"Failed to initialize scenario. Please try again later.">>
    ELSE <<"Failed to process actions. Please try again later.">>

\* the catch block runs with the error thrown: it logs the error and replies.
\* Nothing between the throw and the catch reads the error, so what it holds
\* is drawn here
CatchReply(error) ==
    /\ pc \in {"initFailed", "processFailed"}
    /\ turn.reply = NoValue
    /\ turn' = [turn EXCEPT !.reply = [text |-> FailureReply(pc, error)]]
    /\ UNCHANGED <<variant, roleAssignments, scenarioState, actionQueue,
                   scenarioCheckpoints, pc, requests, inflight, ops>>

\* the catch block's reply has been sent: the handler ends
HandlerFailed ==
    /\ pc \in {"initFailed", "processFailed"}
    /\ turn.reply # NoValue
    /\ pc' = "idle"
    /\ turn' = NoTurn
    /\ requests' = <<>>
    /\ UNCHANGED <<variant, roleAssignments, scenarioState, actionQueue,
                   scenarioCheckpoints, inflight, ops>>

Next ==
    \/ \E u \in Users : \E arg \in RoleArgs(u) : RoleCommand(u, arg)
    \/ \E u \in Users : \E text \in ScenarioTexts : ScenarioCommand(u, text)
    \/ \E completion \in InitReplies : ScenarioSettle(completion)
    \/ \E u \in Users : \E message \in Contents : InfoCommand(u, message)
    \/ \E u \in Users : \E message \in Contents : FeedCommand(u, message)
    \/ \E u \in Users : \E message \in Contents : ActionCommand(u, message)
    \/ \E u \in Users : \E param \in RemoveParams : RemoveCommand(u, param)
    \/ \E u \in Users : \E hash \in DOMAIN scenarioCheckpoints \cup {<<>>, UnknownHash} :
            RollbackCommand(u, hash)
    \/ \E u \in Users : ProcessCommand(u)
    \/ \E i \in inflight : \E completion \in ForecastReplies(variant) : \E rand \in Rands :
            ForecastSettle(i, completion, rand)
    \/ \E i \in inflight : ForecastSettleLate(i)
    \/ NarrationIssue
    \/ \E narratorCompletion \in NarrationReplies : NarrationSettle(narratorCompletion)
    \/ ProcessCommit
    \/ \E delivered \in BOOLEAN : ProcessReplied(delivered)
    \/ \E error \in ErrorDetails : CatchReply(error)
    \/ HandlerFailed

Spec == Init /\ [][Next]_vars

\* every backend request settles, every reply is delivered or throws, and a
\* handler that can go on does go on
Fairness ==
    /\ WF_vars(\E completion \in InitReplies : ScenarioSettle(completion))
    /\ WF_vars(\E i \in inflight : \E completion \in ForecastReplies(variant) :
                  \E rand \in Rands : ForecastSettle(i, completion, rand))
    /\ WF_vars(\E i \in inflight : ForecastSettleLate(i))
    /\ WF_vars(NarrationIssue)
    /\ WF_vars(\E narratorCompletion \in NarrationReplies : NarrationSettle(narratorCompletion))
    /\ WF_vars(ProcessCommit)
    /\ WF_vars(\E delivered \in BOOLEAN : ProcessReplied(delivered))
    /\ WF_vars(\E error \in ErrorDetails : CatchReply(error))
    /\ WF_vars(HandlerFailed)

SpecLive == Spec /\ Fairness

\* --------------------------------------- processActions called directly
\* test/playground.ts: a history from initializeScenario and a batch of
\* interactions are handed to processActions of either ChatService
rai == [id |-> 1, name |-> <<"Rai">>, role |-> <<"Head of Emergency Response">>]

nuno == [id |-> 2, name |-> <<"Nuno">>, role |-> <<"Head of Foresight">>]

\* the kinds of interaction of mockActions, and a FEED
BatchItems ==
    { [type |-> "ACTION", player |-> rai, content |-> <<"recon">>],
      [type |-> "ACTION", player |-> nuno, content |-> <<"shelter">>],
      [type |-> "INFO", player |-> nuno, content |-> <<"rate?">>],
      [type |-> "FEED", player |-> rai, content |-> <<"strike">>] }

Batches == UNION { [1..n -> BatchItems] : n \in 0..MaxBatch }

Histories ==
    { initializeScenario(<<"unrest">>, completion) :
        completion \in { c \in InitReplies : c.ok } }

InitPA ==
    /\ variant \in Variants
    /\ roleAssignments = <<rai, nuno>>
    /\ scenarioState \in [isActive : {TRUE}, messages : Histories]
    /\ actionQueue \in Batches
    /\ scenarioCheckpoints = [h \in {} |-> NoValue]
    /\ pc = "idle"
    /\ turn = NoTurn
    /\ requests = <<>>
    /\ inflight = {}
    /\ ops = 0

PlaygroundCall ==
    /\ pc = "idle"
    /\ StartProcessActions(scenarioState.messages, actionQueue)
    /\ UNCHANGED <<variant, roleAssignments, scenarioState, actionQueue,
                   scenarioCheckpoints, ops>>

NextPA ==
    \/ PlaygroundCall
    \/ \E i \in inflight : \E completion \in ForecastReplies(variant) : \E rand \in Rands :
            ForecastSettle(i, completion, rand)
    \/ \E i \in inflight : ForecastSettleLate(i)
    \/ NarrationIssue
    \/ \E narratorCompletion \in NarrationReplies : NarrationSettle(narratorCompletion)

SpecPA == InitPA /\ [][NextPA]_vars

\* ===================================================================
\* The tool-call variant on one interaction, over every candidate list: the
\* arguments of the tool call are whatever the backend wrote.
\* ===================================================================
MaxWeight == 2

MaxLen == 3

MaxDen == 4

\* the description of the k-th candidate
Description(k) == <<"outcome", Numerals[k]>>

\* outcomes: Array<{ outcome: string; weight: number }>, never empty
CandidateLists ==
    UNION { { [k \in 1..n |-> [outcome |-> Description(k), weight |-> weights[k]]] :
                weights \in [1..n -> 0..MaxWeight] } : n \in 1..MaxLen }

SamplingReplies ==
    { ToolReply([parses |-> TRUE, value |-> [outcomes |-> outcomes]]) :
        outcomes \in CandidateLists }

\* values of Math.random() in [0, 1), as fractions
SamplingRands == { [num |-> n, den |-> MaxDen] : n \in 0..(MaxDen - 1) }

InitSampling ==
    /\ variant = "openai"
    /\ roleAssignments = <<rai, nuno>>
    /\ scenarioState \in [isActive : {TRUE}, messages : Histories]
    /\ actionQueue \in { <<item>> : item \in { b \in BatchItems : b.type # "FEED" } }
    /\ scenarioCheckpoints = [h \in {} |-> NoValue]
    /\ pc = "idle"
    /\ turn = NoTurn
    /\ requests = <<>>
    /\ inflight = {}
    /\ ops = 0

NextSampling ==
    \/ PlaygroundCall
    \/ \E i \in inflight : \E completion \in SamplingReplies : \E rand \in SamplingRands :
            ForecastSettle(i, completion, rand)
    \/ NarrationIssue
    \/ \E narratorCompletion \in NarrationReplies : NarrationSettle(narratorCompletion)

SpecSampling == InitSampling /\ [][NextSampling]_vars

\* ===================================================================
\* Properties of the turn pipeline and of the session handlers
\* ===================================================================
ForecastRequestIndexes == {k \in 1..Len(requests) : requests[k].kind = "forecast"}

NarrationRequestIndexes == {k \in 1..Len(requests) : requests[k].kind = "narration"}

ForecastFailed == \E i \in 1..Len(turn.responses) : turn.responses[i] = BackendError

NarrationContentEmpty ==
    /\ turn.narration # NoValue
    /\ turn.narration.ok
    /\ turn.narration.content = <<>>

LastTwo(messages) == SubSeq(messages, Len(messages) - 1, Len(messages))

\* C1: when the backend fails on one interaction's forecast, that interaction
\* is logged and left out, and the turn goes on with the others: processActions
\* does not fail unless the narration call itself fails.
C1_ForecastFailureIsAbsorbed ==
    ForecastFailed => (pc = "processFailed" => turn.narration = BackendError)

C3_TranscriptHoldsOutcomeBlock ==
    pc = "reply" => LastTwo(scenarioState.messages) = LastTwo(turn.result)

\* C4: processActions returns the history it was given followed by exactly
\* two new messages, a user message and then an assistant message, and it
\* changes neither the history nor the batch it was given.
C4_ReturnsHistoryPlusTwo ==
    pc = "returned" =>
        LET history == turn.before.scenarioState.messages
            result == turn.result
        IN  /\ Len(result) = Len(history) + 2
            /\ SubSeq(result, 1, Len(history)) = history
            /\ result[Len(history) + 1].role = "user"
            /\ result[Len(history) + 2].role = "assistant"
            /\ scenarioState.messages = history
            /\ actionQueue = turn.before.actionQueue

C4_Witness ==
    /\ pc = "returned"
    /\ Len(turn.actions) >= 2
    /\ Len(turn.before.scenarioState.messages) >= 1

\* C5: the narration request is sent only once every forecast of the turn has
\* settled: no forecast is in flight or pending when it is in the log.
C5_NarrationAfterAllForecasts ==
    NarrationRequestIndexes # {} =>
        /\ inflight = {}
        /\ \A i \in 1..Len(turn.promises) :
              /\ turn.promises[i].state # "pending"
              /\ turn.responses[i] # NoValue

C5_Witness ==
    /\ NarrationRequestIndexes # {}
    /\ Len(turn.promises) >= 2

\* ---- replies that cannot be parsed
CountToken(text, token) == Cardinality({k \in 1..Len(text) : text[k] = token})

IsSubText(part, text) ==
    \E at \in 0..(Len(text) - Len(part)) : SubSeq(text, at + 1, at + Len(part)) = part

LacksToolCall(completion) == completion.ok /\ completion.tool_calls = <<>>

LacksMarker(completion) == completion.ok /\ CountToken(completion.content, "OUTCOME:") = 0

ParseErrorReply(completion) ==
    IF variant = "openai" THEN LacksToolCall(completion) ELSE LacksMarker(completion)

\* a backend failure, or a tool call whose arguments are not JSON
RaisesOnItsOwn(completion) ==
    /\ completion # NoValue
    /\ \/ ~completion.ok
       \/ /\ completion.tool_calls # <<>>
          /\ ~completion.tool_calls[1].arguments.parses

OutcomesCombined == pc \in {"narrate", "returned"}

NumOutcomeBlocks == CountToken(turn.allOutcomesStr, "Outcome: ")

\* the interaction whose forecast is promise i, found without partition
RECURSIVE NthForecastable(_, _)
NthForecastable(actions, i) ==
    IF Head(actions).type # "FEED"
    THEN IF i = 1 THEN Head(actions) ELSE NthForecastable(Tail(actions), i - 1)
    ELSE NthForecastable(Tail(actions), i)

RenderedLine(a) == <<a.type, " ">> \o a.player.name \o <<": ">> \o a.content

PipelineFatal ==
    \/ pc = "initFailed"
    \/ pc = "processFailed" /\ turn.narration = BackendError

\* C7: when initializeScenario's backend call fails during /scenario, or the
\* narration call fails during /process, the command ends with the session as
\* it was before it: isActive, transcript, queue and checkpoints are unchanged.
C7_FatalFailureLeavesSession ==
    [][PipelineFatal =>
         /\ SessionSnapshot = turn.before
         /\ pc' = (IF turn.reply = NoValue THEN pc ELSE "idle")
         /\ SessionSnapshot' = turn.before]_vars

C7_Witness ==
    /\ pc = "processFailed"
    /\ turn.narration = BackendError
    /\ Len(actionQueue) >= 1
    /\ DOMAIN scenarioCheckpoints # {}

\* ---- requests issued in one turn
NumForecastable(actions) ==
    Cardinality({j \in 1..Len(actions) : actions[j].type \in {"INFO", "ACTION"}})

AllCallsSucceeded ==
    /\ \A i \in 1..Len(turn.responses) : ~RaisesOnItsOwn(turn.responses[i])
    /\ turn.narration # BackendError

\* C8: a turn issues one forecast request per INFO or ACTION interaction and
\* none per FEED, all of them before any forecast response is consumed; when
\* every call succeeds it then issues exactly one narration request, also for
\* a batch of FEEDs only.
C8_OneForecastPerNonFeed ==
    pc # "idle" =>
        /\ Cardinality(ForecastRequestIndexes) = NumForecastable(turn.actions)
        /\ Len(turn.responses) = NumForecastable(turn.actions)
        /\ \A k \in ForecastRequestIndexes : \A n \in NarrationRequestIndexes : k < n
        /\ Cardinality(NarrationRequestIndexes) <= 1
        /\ (AllCallsSucceeded /\ pc = "returned") =>
              /\ Cardinality(NarrationRequestIndexes) = 1
              /\ Len(requests) = NumForecastable(turn.actions) + 1
        /\ (AllCallsSucceeded /\ inflight = {}) => pc \in {"forecast", "narrate", "returned"}

C8_Witness ==
    /\ pc = "returned"
    /\ AllCallsSucceeded
    /\ NumForecastable(turn.actions) >= 2
    /\ \E j \in 1..Len(turn.actions) : turn.actions[j].type = "FEED"

C8_WitnessFeedsOnly ==
    /\ pc = "returned"
    /\ Len(turn.actions) >= 1
    /\ NumForecastable(turn.actions) = 0

\* ---- order and attribution of the outcomes
IsPrefix(part, text) == Len(part) <= Len(text) /\ SubSeq(text, 1, Len(part)) = part

\* the outcome text that the reply of a forecast can give rise to
ProducedBy(outcome, completion) ==
    IF completion.tool_calls # <<>>
    THEN \E k \in 1..Len(completion.tool_calls[1].arguments.value.outcomes) :
            outcome = completion.tool_calls[1].arguments.value.outcomes[k].outcome
    ELSE IsSubText(outcome, completion.content)

BlockHeader(i) == RenderedLine(NthForecastable(turn.actions, i)) \o <<"\n", "Outcome: ">>

ResolvedIndexes ==
    {i \in 1..Len(turn.promises) : turn.promises[i].value # NoValue}

RECURSIVE FeedLines(_)
FeedLines(actions) ==
    IF actions = <<>> THEN <<>>
    ELSE IF Head(actions).type = "FEED"
         THEN <<<<"FEED", ": ">> \o Head(actions).content>> \o FeedLines(Tail(actions))
         ELSE FeedLines(Tail(actions))

RECURSIVE ResolvedBlocks(_)
ResolvedBlocks(i) ==
    IF i > Len(turn.promises) THEN <<>>
    ELSE IF i \in ResolvedIndexes
         THEN <<turn.promises[i].value>> \o ResolvedBlocks(i + 1)
         ELSE ResolvedBlocks(i + 1)

\* C9: in whatever order the forecast responses arrive, the combined outcome
\* block is the FEED contents in queue order followed by the resolved outcome
\* blocks in the queue order of their interactions, and each block carries the
\* kind, player name and content of the interaction whose own request
\* produced its outcome.
C9_OutcomesInQueueOrder ==
    OutcomesCombined =>
        /\ \A i \in ResolvedIndexes :
              LET block == turn.promises[i].value
              IN  /\ IsPrefix(BlockHeader(i), block)
                  /\ ProducedBy(SubSeq(block, Len(BlockHeader(i)) + 1, Len(block)),
                                turn.responses[i])
        /\ turn.allOutcomesStr =
              Join(FeedLines(turn.actions) \o ResolvedBlocks(1), <<"\n", "\n">>)

C9_Witness ==
    /\ pc = "returned"
    /\ \E j, k \in 1..Len(turn.actions) :
          j < k /\ turn.actions[j].type # "FEED" /\ turn.actions[k].type = "FEED"
    /\ \E i, j \in ResolvedIndexes :
          /\ i < j
          /\ turn.responses[i] # turn.responses[j]
          /\ NthForecastable(turn.actions, i) # NthForecastable(turn.actions, j)

\* ---- content of the forecast requests
TargetMarker == "But please forecast the outcome for only this specific action:"

\* the position of the token in the text, 0 when it is not there
FirstIndexOf(text, token) ==
    IF CountToken(text, token) = 0 THEN 0
    ELSE CHOOSE k \in 1..Len(text) :
            text[k] = token /\ \A j \in 1..(k - 1) : text[j] # token

ForecastRequestContent(k) ==
    LET request == requests[k]
        history == turn.before.scenarioState.messages
        last == request.messages[Len(request.messages)]
        at == FirstIndexOf(last.content, TargetMarker)
        target == SubSeq(last.content, at + 1, Len(last.content))
        line == <<"\n">> \o RenderedLine(NthForecastable(turn.actions, k))
    IN  /\ \E lead \in 0..1 :
              /\ Len(request.messages) = lead + Len(history) + 1
              /\ SubSeq(request.messages, lead + 1, lead + Len(history)) = history
        /\ last.role = "user"
        /\ CountToken(last.content, TargetMarker) = 1
        /\ \A j \in 1..Len(turn.actions) :
              IsSubText(RenderedLine(turn.actions[j]), SubSeq(last.content, 1, at - 1))
        /\ IsPrefix(line, target)
        /\ Len(target) > Len(line) => target[Len(line) + 1] = "\n"

\* a step that consumes a forecast response leaves the issued requests as
\* they are, and a step that issues forecast requests has consumed none
ForecastRequestsIndependent ==
    /\ \A k \in ForecastRequestIndexes :
          pc' # "idle" => (k \in DOMAIN requests' /\ requests'[k] = requests[k])
    /\ (\E k \in 1..Len(requests') :
           requests'[k].kind = "forecast" /\ k \notin ForecastRequestIndexes)
       => \A i \in 1..Len(turn'.responses) : turn'.responses[i] = NoValue

\* C10: every forecast request holds the whole canonical history, a rendering
\* of every interaction of the batch, FEEDs included, and exactly one target
\* interaction; it is fixed by the history, the batch and the target, and no
\* response or outcome of another forecast of the batch changes it.
C10_ForecastRequestContent ==
    /\ [](\A k \in ForecastRequestIndexes : ForecastRequestContent(k))
    /\ [][ForecastRequestsIndependent]_vars

C10_Witness ==
    /\ pc = "forecast"
    /\ Len(turn.before.scenarioState.messages) >= 1
    /\ \E j \in 1..Len(turn.actions) : turn.actions[j].type = "FEED"
    /\ \E i, j \in 1..Len(turn.responses) :
          turn.responses[i] # NoValue /\ turn.responses[j] = NoValue

\* ---- the split of the queue
PositionsOf(actions, types) == {j \in 1..Len(actions) : actions[j].type \in types}

\* the k-th smallest position of the set
NthOf(positions, k) ==
    CHOOSE j \in positions : Cardinality({i \in positions : i < j}) = k - 1

\* part holds the items at the positions, one each, in the order of actions
PicksInOrder(part, actions, positions) ==
    /\ Len(part) = Cardinality(positions)
    /\ \A k \in 1..Len(part) : part[k] = actions[NthOf(positions, k)]

\* C11: the split of a queue into world-truth and forecastable interactions
\* puts every queued interaction in exactly one of the two sequences, the
\* FEEDs in the first, the INFOs and ACTIONs in the second, each sequence in
\* queue order.
C11_PartitionTotalAndStable ==
    pc # "idle" =>
        LET parts == partition(turn.actions, IsFeed(turn.actions))
            feedAt == PositionsOf(turn.actions, {"FEED"})
            otherAt == PositionsOf(turn.actions, {"INFO", "ACTION"})
        IN  /\ feedAt \cup otherAt = 1..Len(turn.actions)
            /\ PicksInOrder(parts[1], turn.actions, feedAt)
            /\ PicksInOrder(parts[2], turn.actions, otherAt)
            /\ Len(parts[1]) + Len(parts[2]) = Len(turn.actions)
            /\ Len(turn.promises) = Len(parts[2])

C11_Witness ==
    /\ pc = "forecast"
    /\ \E i, j, k \in 1..Len(turn.actions) :
          /\ i < j /\ j < k
          /\ turn.actions[i].type # "FEED"
          /\ turn.actions[j].type = "FEED"
          /\ turn.actions[k].type # "FEED"
          /\ turn.actions[i] # turn.actions[k]

\* ---- the end of a /process turn
\* the store holds, under the key of the live state, a copy equal to it
LiveStateCheckpointed ==
    LET hash == generateStateHash(scenarioState)
    IN  /\ hash \in DOMAIN scenarioCheckpoints
        /\ scenarioCheckpoints[hash] = scenarioState

TranscriptExtended ==
    LET earlier == turn.before.scenarioState.messages
    IN  /\ Len(scenarioState.messages) = Len(earlier) + 2
        /\ SubSeq(scenarioState.messages, 1, Len(earlier)) = earlier

\* C12: a /process that succeeds on a non-empty queue ends with the queue
\* empty and with a copy equal to the new scenario state in the checkpoint
\* store under the key reported; the transcript is extended first, the
\* checkpoint is taken of the extended transcript, the queue is cleared last.
C12_ExtendThenCheckpointThenClear ==
    /\ [](pc = "returned" =>
            /\ scenarioState = turn.before.scenarioState
            /\ scenarioCheckpoints = turn.before.scenarioCheckpoints
            /\ actionQueue = turn.before.actionQueue)
    /\ [](pc = "reply" =>
            /\ TranscriptExtended
            /\ LiveStateCheckpointed
            /\ actionQueue = turn.before.actionQueue
            /\ Len(actionQueue) >= 1)
    /\ [][(pc = "reply" /\ pc' = "idle") =>
            /\ actionQueue' = <<>>
            /\ scenarioState' = scenarioState
            /\ LiveStateCheckpointed']_vars

C12_Witness ==
    /\ pc = "reply"
    /\ Len(actionQueue) >= 2
    /\ Cardinality(DOMAIN scenarioCheckpoints) >= 2

\* ---- one turn at a time
\* a step that starts a run of the pipeline: forecast requests go out that
\* were not out before, or the locals of processActions are set up anew
PipelineRunStarts ==
    /\ pc' = "forecast"
    /\ \/ pc # "forecast"
       \/ inflight' \ inflight # {}
       \/ turn'.before # turn.before
       \/ \E i \in 1..Len(turn.responses) :
             turn.responses[i] # NoValue /\ turn'.responses[i] = NoValue

Activated == ~scenarioState.isActive /\ scenarioState'.isActive

\* C14: isActive starts false, becomes true only when an initializeScenario
\* call ends with success, and once true stays true: no command, /rollback to
\* any stored checkpoint included, sets it back to false.
C14_ActiveForever ==
    /\ ~scenarioState.isActive
    /\ [][Activated =>
            /\ pc = "init"
            /\ \E completion \in InitReplies : completion.ok /\ ScenarioSettle(completion)]_vars
    /\ [][scenarioState.isActive => scenarioState'.isActive]_vars
    /\ [](\A hash \in DOMAIN scenarioCheckpoints : scenarioCheckpoints[hash].isActive)

\* the live state is the initial one again, after a turn was committed
C14_Witness ==
    /\ scenarioState.isActive
    /\ Len(scenarioState.messages) = 2
    /\ \E hash \in DOMAIN scenarioCheckpoints :
          Len(scenarioCheckpoints[hash].messages) = 4

\* ---- who may use which command
HasRole(u) == \E i \in 1..Len(roleAssignments) : roleAssignments[i].id = u

SessionWritten ==
    \/ scenarioState' # scenarioState
    \/ actionQueue' # actionQueue
    \/ scenarioCheckpoints' # scenarioCheckpoints

RequestIssued == requests' # requests /\ requests' # <<>>

\* a step that is user u's /info, /feed, /action, /remove, /process or /rollback
GameCommandBy(u) ==
    \/ \E message \in Contents :
          InfoCommand(u, message) \/ FeedCommand(u, message) \/ ActionCommand(u, message)
    \/ \E param \in RemoveParams : RemoveCommand(u, param)
    \/ ProcessCommand(u)
    \/ \E hash \in DOMAIN scenarioCheckpoints \cup {<<>>, UnknownHash} :
          RollbackCommand(u, hash)

ScenarioCommandBy(u) == \E text \in ScenarioTexts : ScenarioCommand(u, text)

\* C15: /info, /feed, /action, /remove, /process and /rollback change no
\* session state unless the sender has a role and the scenario is active;
\* /scenario changes no session state and issues no backend request unless
\* the sender has a role and the scenario is inactive.
C15_CommandsAreGated ==
    [][pc = "idle" =>
         /\ (SessionWritten \/ pc' = "forecast") =>
               /\ scenarioState.isActive
               /\ \E u \in Users : HasRole(u)
         /\ (pc' = "init" \/ (RequestIssued /\ requests'[1].kind = "init")) =>
               /\ ~scenarioState.isActive
               /\ \E u \in Users : HasRole(u)
         /\ Len(actionQueue') > Len(actionQueue) =>
               HasRole(actionQueue'[Len(actionQueue')].player.id)
         /\ \A u \in Users :
               /\ (GameCommandBy(u) /\ (SessionWritten \/ RequestIssued)) =>
                     (HasRole(u) /\ scenarioState.isActive)
               /\ (ScenarioCommandBy(u) /\ (SessionWritten \/ RequestIssued)) =>
                     (HasRole(u) /\ ~scenarioState.isActive)]_vars

\* a scenario is active with a queue, and one of the users has no role
C15_Witness ==
    /\ pc = "idle"
    /\ scenarioState.isActive
    /\ Len(actionQueue) >= 1
    /\ \E u, w \in Users : HasRole(u) /\ ~HasRole(w)

\* ---- the result of initializeScenario
\* the seed text the call in progress was given
SeedText == requests[1].messages[Len(requests[1].messages)].content

\* C16: initializeScenario fails whenever its backend call fails, and in
\* every other case returns a history of exactly two messages, the user
\* message holding the seed text and then one assistant message.
C16_InitializeScenarioResult ==
    [][pc = "init" =>
         \A completion \in InitReplies :
            ScenarioSettle(completion) =>
               IF completion = BackendError
               THEN /\ pc' = "initFailed"
                    /\ scenarioState' = scenarioState
                    /\ ~scenarioState'.isActive
               ELSE /\ pc' = "idle"
                    /\ SeedText \in ScenarioTexts \ {<<>>}
                    /\ Len(scenarioState'.messages) = 2
                    /\ scenarioState'.messages[1] = [role |-> "user", content |-> SeedText]
                    /\ scenarioState'.messages[2].role = "assistant"]_vars

\* a scenario initialised from a completion without content
C16_Witness ==
    /\ scenarioState.isActive
    /\ Len(scenarioState.messages) = 2
    /\ scenarioState.messages[2].content = <<"Failed to generate scenario">>

\* ---- saving twice
\* C17: saving a scenario state twice with no change in between gives the
\* same key both times and the second save leaves the number of entries of
\* the checkpoint store as it is.
C17_SaveIsIdempotent ==
    /\ [](LET once == saveState(scenarioCheckpoints, scenarioState)
              twice == saveState(once, scenarioState)
          IN  /\ generateStateHash(scenarioState) \in DOMAIN once
              /\ DOMAIN twice = DOMAIN once
              /\ Cardinality(DOMAIN twice) = Cardinality(DOMAIN once)
              /\ twice = once)
    /\ [][(pc = "returned" /\ pc' = "reply"
           /\ generateStateHash(scenarioState') \in DOMAIN scenarioCheckpoints)
          => scenarioCheckpoints' = scenarioCheckpoints]_vars
    /\ [](pc = "reply" => LiveStateCheckpointed)

\* a turn was committed whose state the store held already
C17_Witness ==
    /\ pc = "reply"
    /\ scenarioCheckpoints = turn.before.scenarioCheckpoints
    /\ Cardinality(DOMAIN scenarioCheckpoints) >= 2

\* ---- rolling back
\* the state whose save returned the key: the digest stands for its preimage
StateOfKey(hash) == [isActive |-> hash[2][2], messages |-> hash[2][4]]

C20_RollbackToAbsentKey ==
    /\ [][\A u \in Users :
             (UnknownHash \notin DOMAIN scenarioCheckpoints
              /\ RollbackCommand(u, UnknownHash))
             => UNCHANGED <<scenarioState, actionQueue, scenarioCheckpoints>>]_vars
    /\ [][(pc = "idle" /\ scenarioState' # scenarioState) =>
             /\ \E hash \in DOMAIN scenarioCheckpoints :
                   scenarioState' = scenarioCheckpoints[hash]
             /\ UNCHANGED <<actionQueue, scenarioCheckpoints>>]_vars
    /\ [](UnknownHash \notin DOMAIN scenarioCheckpoints)

\* a session in which a /rollback with the absent key is taken up
C20_Witness ==
    /\ pc = "idle" /\ inflight = {}
    /\ scenarioState.isActive
    /\ \E u \in Users : HasRole(u)
    /\ Len(actionQueue) >= 1
    /\ Len(scenarioState.messages) >= 4
    /\ UnknownHash \notin DOMAIN scenarioCheckpoints

\* ---- commands with an argument that is not valid
\* the argument is one decimal numeral, from 1 to the length of the queue
IsItemNumber(param) ==
    /\ Len(param) = 1
    /\ \E n \in 1..Len(actionQueue) : n <= Len(Numerals) /\ param[1] = Numerals[n]

HasDash(arg) == \E k \in 1..Len(arg) : arg[k] = "-"

\* C21: a /role whose argument has no '-' and a /remove whose argument is not
\* a number from 1 to the length of the queue leave the role assignments, the
\* scenario state, the queue and the checkpoint store as they are.
C21_InvalidArgumentChangesNothing ==
    [][\A u \in Users :
          /\ \A arg \in RoleArgs(u) :
                (RoleCommand(u, arg) /\ ~HasDash(arg)) => SessionSnapshot' = SessionSnapshot
          /\ \A param \in RemoveParams :
                (RemoveCommand(u, param) /\ ~IsItemNumber(param))
                   => SessionSnapshot' = SessionSnapshot]_vars

\* ---- enqueue and dequeue
CurrentPlayer(u) ==
    roleAssignments[CHOOSE i \in 1..Len(roleAssignments) : roleAssignments[i].id = u]

QueueOnly ==
    /\ UNCHANGED <<scenarioState, roleAssignments, scenarioCheckpoints, requests, inflight>>
    /\ pc' = "idle"

AppendsOne(type, u, message) ==
    /\ actionQueue' = Append(actionQueue,
                             [type |-> type, player |-> CurrentPlayer(u), content |-> message])
    /\ QueueOnly

RemovesItem(k) ==
    /\ Len(actionQueue') = Len(actionQueue) - 1
    /\ \A i \in 1..(k - 1) : actionQueue'[i] = actionQueue[i]
    /\ \A i \in k..Len(actionQueue') : actionQueue'[i] = actionQueue[i + 1]
    /\ QueueOnly

\* C22: /info, /feed and /action with content append exactly one interaction
\* (the kind, the sender's current player, the content) at the end of the
\* queue; /remove k with k from 1 to the length of the queue removes exactly
\* the k-th item and keeps the order of the others; none of them sends a
\* backend request or changes the scenario state, the roles or the checkpoints.
C22_QueueCommandsOnlyTouchQueue ==
    [][\A u \in Users :
          /\ \A message \in Contents \ {<<>>} :
                /\ InfoCommand(u, message) => AppendsOne("INFO", u, message)
                /\ FeedCommand(u, message) => AppendsOne("FEED", u, message)
                /\ ActionCommand(u, message) => AppendsOne("ACTION", u, message)
          /\ \A k \in 1..Len(actionQueue) :
                RemoveCommand(u, <<Numerals[k]>>) => RemovesItem(k)]_vars

\* a queue of different kinds from which an item other than the last can go
C22_Witness ==
    /\ pc = "idle"
    /\ Len(actionQueue) >= 2
    /\ actionQueue[1].type # actionQueue[2].type
    /\ actionQueue[1].player # actionQueue[2].player

\* ---- the weighted draw
\* the candidate lists the tool calls of the turn carried, one per answered
\* forecast of the tool-call variant
SampledIndexes ==
    { i \in 1..Len(turn.responses) :
        /\ turn.responses[i] # NoValue
        /\ turn.responses[i].ok
        /\ turn.responses[i].tool_calls # <<>>
        /\ turn.responses[i].tool_calls[1].arguments.parses }

CandidatesOf(i) == turn.responses[i].tool_calls[1].arguments.value.outcomes

Listed(outcomes) == { outcomes[k].outcome : k \in 1..Len(outcomes) }

RECURSIVE TotalUpTo(_, _)
TotalUpTo(outcomes, k) ==
    IF k = 0 THEN 0 ELSE TotalUpTo(outcomes, k - 1) + outcomes[k].weight

\* the cumulative normalised weight up to and including candidate k is at
\* least r; with a total of 0 the normalised weights are no numbers and no
\* cumulative sum reaches anything
Reaches(outcomes, k, r) ==
    LET total == TotalUpTo(outcomes, Len(outcomes))
    IN  total # 0 /\ r.num * total <= TotalUpTo(outcomes, k) * r.den

NeverReaches(outcomes, r) == \A k \in 1..Len(outcomes) : ~Reaches(outcomes, k, r)

\* the outcome text of the block that forecast i resolved to
SampledOutcome(i) ==
    LET lead == RenderedLine(NthForecastable(turn.actions, i)) \o <<"\n", "Outcome: ">>
        block == turn.promises[i].value
    IN  SubSeq(block, Len(lead) + 1, Len(block))

\* C23: for every non-empty candidate list and every draw r in [0,1),
\* sampleFromWeightedOutcomes returns the description of a listed candidate,
\* never null and never a value outside the list, and returns the last
\* candidate when the cumulative sum never reaches r.
C23_SampleIsListed ==
    \A i \in SampledIndexes :
        LET outcomes == CandidatesOf(i)
        IN  /\ turn.promises[i].state = "fulfilled"
            /\ turn.promises[i].value # NoValue
            /\ SampledOutcome(i) \in Listed(outcomes)
            /\ (\A r \in SamplingRands : NeverReaches(outcomes, r))
                  => SampledOutcome(i) = outcomes[Len(outcomes)].outcome
            /\ \A r \in SamplingRands :
                  /\ sampleFromWeightedOutcomes(outcomes, r) \in Listed(outcomes)
                  /\ NeverReaches(outcomes, r)
                        => sampleFromWeightedOutcomes(outcomes, r)
                              = outcomes[Len(outcomes)].outcome

C23_Witness ==
    /\ pc = "returned"
    /\ \E i \in SampledIndexes :
          /\ Len(CandidatesOf(i)) >= 2
          /\ \A r \in SamplingRands : NeverReaches(CandidatesOf(i), r)
          /\ SampledOutcome(i) = CandidatesOf(i)[Len(CandidatesOf(i))].outcome

PositiveWeights(outcomes) == \A k \in 1..Len(outcomes) : outcomes[k].weight > 0

\* the first candidate in list order whose cumulative normalised weight is
\* at least r
FirstReaching(outcomes, r) ==
    CHOOSE k \in 1..Len(outcomes) :
        Reaches(outcomes, k, r) /\ \A j \in 1..(k - 1) : ~Reaches(outcomes, j, r)

\* C28: for every non-empty candidate list with positive weights and every
\* draw r, sampleFromWeightedOutcomes returns the description of the first
\* candidate in list order whose cumulative normalised weight is greater
\* than or equal to r.
C28_FirstCandidateReachingDraw ==
    \A i \in SampledIndexes :
        LET outcomes == CandidatesOf(i)
        IN  PositiveWeights(outcomes) =>
              /\ \A r \in SamplingRands :
                    sampleFromWeightedOutcomes(outcomes, r)
                        = outcomes[FirstReaching(outcomes, r)].outcome
              /\ \E r \in SamplingRands :
                    SampledOutcome(i) = outcomes[FirstReaching(outcomes, r)].outcome

\* a draw that lands exactly on the cumulative weight of the first candidate
C28_Witness ==
    /\ pc = "returned"
    /\ \E i \in SampledIndexes :
          /\ PositiveWeights(CandidatesOf(i))
          /\ Len(CandidatesOf(i)) >= 2
          /\ SampledOutcome(i) = CandidatesOf(i)[1].outcome
          /\ \E r \in SamplingRands :
                /\ r.num > 0
                /\ r.num * TotalUpTo(CandidatesOf(i), Len(CandidatesOf(i)))
                      = CandidatesOf(i)[1].weight * r.den

\* ---- the first assistant message
DeclaresOffsetZero(content) == CountToken(content, "T+0") >= 1

\* the facilitator prompt of the request in progress
InitPromptSent ==
    IF requests[1].system # <<>> THEN requests[1].system
    ELSE requests[1].messages[1].content

RetryLaterTexts ==
    { <<"Failed to initialize scenario. Please try again later.">>,
      <<"Failed to process actions. Please try again later.">> }

\* C25: the text sent to the chat when /scenario or /process fails is a fixed
\* retry-later message: two runs that differ only in what the backend error
\* holds send the same text to the players.
C25_FailureReplyIsFixed ==
    /\ [](turn.reply # NoValue =>
            /\ pc \in {"initFailed", "processFailed"}
            /\ turn.reply.text \in RetryLaterTexts
            /\ \A error \in ErrorDetails : ~IsSubText(error, turn.reply.text))
    /\ [][\A error \in ErrorDetails : \A other \in ErrorDetails :
            CatchReply(error) =>
               /\ turn'.reply.text = FailureReply(pc, other)
               /\ [turn EXCEPT !.reply = [text |-> FailureReply(pc, other)]] = turn']_vars

\* the reply to a /process whose forecast failed
C25_Witness ==
    /\ pc = "processFailed"
    /\ ForecastFailed
    /\ turn.reply # NoValue
    /\ turn.reply.text = <<"Failed to process actions. Please try again later.">>

\* ---- the transcript only grows
\* C26: the canonical transcript is append-only under processing: after every
\* successful /process the previous live transcript is a strict prefix of the
\* new one, and no command other than /rollback ever removes or rewrites a
\* message of an Active scenario's transcript.
C26_TranscriptAppendOnly ==
    /\ [][ProcessCommit =>
            /\ IsPrefix(scenarioState.messages, scenarioState'.messages)
            /\ Len(scenarioState'.messages) > Len(scenarioState.messages)]_vars
    /\ [][(scenarioState.isActive
             /\ ~(\E u \in Users :
                    \E hash \in DOMAIN scenarioCheckpoints \cup {<<>>, UnknownHash} :
                        RollbackCommand(u, hash)))
            => /\ scenarioState'.isActive
               /\ IsPrefix(scenarioState.messages, scenarioState'.messages)]_vars
    /\ [](pc = "reply" =>
            /\ IsPrefix(turn.before.scenarioState.messages, scenarioState.messages)
            /\ Len(scenarioState.messages) > Len(turn.before.scenarioState.messages))

\* a /process answered in full: the transcript holds more than the scenario
C26_Witness ==
    /\ pc = "idle"
    /\ scenarioState.isActive
    /\ Len(scenarioState.messages) >= 4
    /\ actionQueue = <<>>

\* ---- the two variants of processActions
\* the outcome text a variant chooses from a reply, when it chooses one
Chosen(v, completion, rand) ==
    IF ~completion.ok THEN [has |-> FALSE, text |-> <<>>]
    ELSE IF v = "openai"
    THEN IF completion.tool_calls # <<>> /\ completion.tool_calls[1].arguments.parses
         THEN [has |-> TRUE,
               text |-> sampleFromWeightedOutcomes(
                            completion.tool_calls[1].arguments.value.outcomes, rand)]
         ELSE [has |-> FALSE, text |-> <<>>]
    ELSE LET found == MatchOutcome(completion.content)
         IN  [has |-> TRUE,
              text |-> IF found.matched THEN Trim(found.group) ELSE completion.content]

\* C27: given the same history, the same batch and the same chosen outcome
\* text for each INFO or ACTION interaction, the structured tool-call variant
\* and the text-marker variant of processActions build the same combined
\* outcome block and append messages of the same shape to the history.
C27_VariantsBuildTheSameBlock ==
    pc = "returned" =>
        /\ \A i \in ResolvedIndexes :
              LET action == NthForecastable(turn.actions, i)
                  block == turn.promises[i].value
                  text == SubSeq(block, Len(BlockHeader(i)) + 1, Len(block))
              IN  /\ IsPrefix(BlockHeader(i), block)
                  /\ \E rand \in Rands :
                        Chosen(variant, turn.responses[i], rand) = [has |-> TRUE, text |-> text]
                  /\ \A v \in Variants : \A completion \in ForecastReplies(v) :
                        \A rand \in Rands :
                           Chosen(v, completion, rand) = [has |-> TRUE, text |-> text]
                              => ForecastCallback(v, action, completion, rand) = Fulfilled(block)
        /\ turn.allOutcomesStr
              = Join(FeedLines(turn.actions) \o ResolvedBlocks(1), <<"\n", "\n">>)
        /\ LET history == turn.canonicalScenarioMessages
           IN  /\ Len(turn.result) = Len(history) + 2
               /\ SubSeq(turn.result, 1, Len(history)) = history
               /\ turn.result[Len(history) + 1]
                     = [role |-> "user", content |-> turn.allOutcomesStr]
               /\ DOMAIN turn.result[Len(history) + 2] = {"role", "content"}
               /\ turn.result[Len(history) + 2].role = "assistant"

\* the text-marker variant chose an outcome that the tool-call variant can
\* choose as well, in a batch with a FEED
C27_Witness ==
    /\ pc = "returned"
    /\ variant = "anthropic"
    /\ \E j \in 1..Len(turn.actions) : turn.actions[j].type = "FEED"
    /\ \E i \in ResolvedIndexes :
          /\ turn.promises[i].value = BlockHeader(i) \o <<"won">>
          /\ \E completion \in ForecastReplies("openai") : \E rand \in Rands :
                Chosen("openai", completion, rand) = [has |-> TRUE, text |-> <<"won">>]

\* ---- a turn ends when its requests have settled
TurnInProgress == pc \in {"forecast", "narrate", "returned", "reply", "processFailed"}

\* the step that ends a turn: the queue is cleared after the key was sent,
\* or the failure message was sent
TurnEndsWell ==
    /\ pc = "reply"
    /\ actionQueue' = <<>>
    /\ \E hash \in DOMAIN scenarioCheckpoints : scenarioCheckpoints[hash] = scenarioState

TurnEndsBadly ==
    /\ pc = "processFailed"
    /\ turn.reply # NoValue
    /\ turn.reply.text = <<"Failed to process actions. Please try again later.">>

\* the half of C29 that every started turn ends
C29_TurnEnds ==
    /\ (pc = "forecast") ~> (pc = "idle")
    /\ [][(TurnInProgress /\ pc' = "idle") => (TurnEndsWell \/ TurnEndsBadly)]_vars

\* C29: provided every backend request eventually settles and chat replies
\* are delivered, every /process that starts a turn eventually finishes it,
\* either with the queue cleared and a checkpoint key reported or with the
\* failure message sent; a turn in which one forecast or the narration
\* request never settles never finishes: a turn ends only once every request
\* it issued has settled.
C29_TurnEndsOnlyWhenSettled ==
    /\ (pc = "forecast") ~> (pc = "idle")
    /\ [][(TurnInProgress /\ pc' = "idle") => (TurnEndsWell \/ TurnEndsBadly)]_vars
    /\ [](pc = "narrate" => turn.narration = NoValue)
    /\ [][(TurnInProgress /\ pc' = "idle") => inflight = {}]_vars

\* ---- interactions sent while a turn is running
\* every interaction of the batch was forecast or narrated in the turn
BatchWasProcessed ==
    /\ \A k \in 1..NumForecastable(turn.actions) :
          /\ k \in ForecastRequestIndexes
          /\ ForecastRequestContent(k)
    /\ \A j \in 1..Len(turn.actions) :
          turn.actions[j].type = "FEED" =>
              IsSubText(<<"FEED", ": ">> \o turn.actions[j].content, turn.allOutcomesStr)

NarratedHistory ==
    LET n == CHOOSE k \in NarrationRequestIndexes : TRUE
    IN  SubSeq(requests[n].messages, 1, Len(requests[n].messages) - 1)

C32_LiveStateIsStored ==
    /\ (scenarioState.isActive /\ pc = "idle") =>
          /\ generateStateHash(scenarioState) \in DOMAIN scenarioCheckpoints
          /\ scenarioCheckpoints[generateStateHash(scenarioState)] = scenarioState
    /\ \A hash \in DOMAIN scenarioCheckpoints :
          /\ hash = generateStateHash(scenarioCheckpoints[hash])
          /\ scenarioCheckpoints[hash].isActive

\* between commands, rolled back to the first of two checkpoints
C32_Witness ==
    /\ pc = "idle"
    /\ scenarioState.isActive
    /\ Len(scenarioState.messages) = 2
    /\ Cardinality(DOMAIN scenarioCheckpoints) >= 2

\* ---- the shape of a transcript
Alternates(messages) ==
    /\ Len(messages) >= 2
    /\ Len(messages) % 2 = 0
    /\ \A k \in 1..Len(messages) :
          messages[k].role = (IF k % 2 = 1 THEN "user" ELSE "assistant")

\* C33: in every reachable state with an Active scenario, the live transcript
\* and the transcript of every stored checkpoint have even length of at
\* least 2 and alternate roles strictly, starting with a user message and
\* ending with an assistant message.
C33_TranscriptsAlternate ==
    scenarioState.isActive =>
        /\ Alternates(scenarioState.messages)
        /\ \A hash \in DOMAIN scenarioCheckpoints :
              Alternates(scenarioCheckpoints[hash].messages)

\* a committed turn beside the checkpoint of the initial state
C33_Witness ==
    /\ scenarioState.isActive
    /\ Len(scenarioState.messages) >= 4
    /\ \E hash \in DOMAIN scenarioCheckpoints :
          Len(scenarioCheckpoints[hash].messages) = 2
    /\ \E hash \in DOMAIN scenarioCheckpoints :
          Len(scenarioCheckpoints[hash].messages) >= 4

\* ---- before the scenario
\* C34: in every reachable state where the scenario is Inactive, the
\* transcript is empty, the pending queue is empty and the checkpoint store
\* is empty.
C34_InactiveSessionIsEmpty ==
    ~scenarioState.isActive =>
        /\ scenarioState.messages = <<>>
        /\ actionQueue = <<>>
        /\ DOMAIN scenarioCheckpoints = {}

\* still Inactive after a /scenario whose backend call failed
C34_Witness ==
    /\ ~scenarioState.isActive
    /\ pc = "initFailed"
    /\ turn.reply # NoValue

\* ---- the scenario is set once
FirstTwo(messages) == SubSeq(messages, 1, 2)

C36_TurnCommitsAtomically ==
    [][(TurnInProgress /\ pc' = "idle"
          /\ scenarioState'.messages # turn.before.scenarioState.messages)
        => /\ actionQueue' = <<>>
           /\ \A j \in 1..Len(turn.actions) :
                 \A k \in 1..Len(actionQueue') : actionQueue'[k] # turn.actions[j]]_vars

\* ---- requests left behind
\* C37: when processActions ends, by returning or by failing, no forecast
\* request of that turn is still outstanding.
C37_NoForecastOutstandingAtEnd ==
    pc \in {"returned", "processFailed"} => inflight = {}

\* ---- what a rollback leaves alone
\* C38: a successful /rollback replaces only the live scenario state: the
\* pending queue, the role assignments and the checkpoint store are
\* unchanged, so every checkpoint taken after the restored one remains
\* available for a later /rollback.
C38_RollbackReplacesOnlyLiveState ==
    [][\A u \in Users : \A hash \in DOMAIN scenarioCheckpoints :
          RollbackCommand(u, hash) =>
             /\ scenarioState' = scenarioCheckpoints[hash]
             /\ actionQueue' = actionQueue
             /\ roleAssignments' = roleAssignments
             /\ scenarioCheckpoints' = scenarioCheckpoints
             /\ \A later \in DOMAIN scenarioCheckpoints :
                   /\ later \in DOMAIN scenarioCheckpoints'
                   /\ scenarioCheckpoints'[later] = scenarioCheckpoints[later]]_vars

\* rolled back to the initial state with an interaction pending and the
\* checkpoint of a committed turn still in the store
C38_Witness ==
    /\ pc = "idle"
    /\ Len(scenarioState.messages) = 2
    /\ actionQueue # <<>>
    /\ \E hash \in DOMAIN scenarioCheckpoints :
          Len(scenarioCheckpoints[hash].messages) >= 4

\* ---- /process with nothing to process
\* C39: a /process command issued while the pending queue is empty issues no
\* backend request and leaves the transcript, the queue and the checkpoint
\* store unchanged; no turn runs on an empty batch.
C39_ProcessOnEmptyQueue ==
    /\ [][\A u \in Users :
            (ProcessCommand(u) /\ actionQueue = <<>>) =>
               /\ requests' = requests
               /\ inflight' = inflight
               /\ pc' = pc
               /\ scenarioState' = scenarioState
               /\ actionQueue' = <<>>
               /\ scenarioCheckpoints' = scenarioCheckpoints]_vars
    /\ [](TurnInProgress => turn.actions # <<>>)
    /\ [](\A k \in 1..Len(requests) :
            requests[k].kind \in {"forecast", "narration"} => turn.actions # <<>>)

\* a player with a role, an Active scenario and an empty queue: /process
\* would be taken up
C39_Witness ==
    /\ Idle
    /\ scenarioState.isActive
    /\ actionQueue = <<>>
    /\ requests = <<>>
    /\ ops < MaxOps
    /\ \E u \in Users : requireRole(u)
    /\ Cardinality(DOMAIN scenarioCheckpoints) = 1
====
